---- MODULE Spec2Model ----
(***************************************************************************)
(* A model of bivarcontours: the dimension walkers of unit_handling        *)
(* (formula_ast_dim.py, formula_ast_dim_96.py), the unit conversion tables *)
(* of map_base_units.py, and the Contour pipeline of bivarcontours.py      *)
(* (calculate_z, runtime_calculate_z, _generate_values, Contour.run).      *)
(*                                                                         *)
(* Python strings are sequences of tokens.  The unit strings of            *)
(* formula_ast_dim.py are built from unit names ("m", "s", "kg", ...),     *)
(* "*", "/", "Dimension Mismatch" and "Unhandled Operator"; a string can   *)
(* be cut into these tokens in one way only, so two token sequences are    *)
(* equal exactly when the strings are.                                     *)
(* formula_ast_dim_96.py slices strings, so there every token is one       *)
(* character.  The value None is the one-token sequence <<"None">>.        *)
(***************************************************************************)
EXTENDS Integers, Sequences, FiniteSets, TLC

VARIABLES
    formula,    \* the ast node handed to post_order
    stack,      \* post_order: the work stack of (visit, node) pairs
    out,        \* post_order: the result stack of dimensions
    po_pc,      \* post_order: "idle", "loop", "done" (returned), "raised"
    po_ret,     \* post_order: what the call produced
    ret96,      \* formula_ast_dim_96.post_order: what the call produced
    fn_call,    \* a direct call of calculate_z or runtime_calculate_z: its arguments
    fn_ret,     \* what that call produced
    self,       \* the Contour object: its attributes
    entry,      \* the method called on it: "run" or "initialize_values"
    pc,         \* the position in that method: the index of the next step
    executed,   \* the steps executed so far, in order
    res,        \* initialize_values: what its call of calculate_z produced
    run_ret,    \* what the method called on the Contour produced
    ax_call,    \* one axis taken from the constructor to its samples: the arguments
    ax_ret,     \* the samples of that axis
    dims,       \* the DIMENSIONS of x and y under which post_order("x*y") ran
    dims_ret,   \* what post_order("x*y") and, with x and y renamed, post_order("y*x") produced
    init_args,  \* the arguments the Contour constructor was called with
    uv,         \* a direct call of unit_validation: its argument and what it produced
    sf,         \* a direct call of _sanitize_filename: its argument and what it and _is_valid_filename produced
    rt,         \* a base unit looked up in unit_mapping_pint_sympy and what sympy_to_pint_mapping gave back for it
    simp        \* test_simplify_equivalent_formulas: a formula, its simplified form, and what post_order produced for each

vars == <<formula, stack, out, po_pc, po_ret, ret96, fn_call, fn_ret, self,
          entry, pc, executed, res, run_ret, ax_call, ax_ret, dims, dims_ret,
          init_args, uv, sf, rt, simp>>
po_vars == <<formula, stack, out, po_pc, po_ret, ret96>>
fn_vars == <<fn_call, fn_ret>>
run_vars == <<self, entry, pc, executed, res, run_ret>>
ax_vars == <<ax_call, ax_ret>>
dims_vars == <<dims, dims_ret>>
pure_vars == <<init_args, uv, sf, rt, simp>>

(***************************************************************************)
(* Bounds                                                                  *)
(***************************************************************************)
\* the largest number of binary operators in a formula
MaxOps == 2
\* the largest number of binary operators in a formula drawn for its shape
MaxShapeOps == 3

(***************************************************************************)
(* Python values                                                           *)
(***************************************************************************)
None == <<"None">>
EmptyStr == <<>>

Ok(v) == [tag |-> "ok", val |-> v]
Raise(e) == [tag |-> "raise", val |-> <<e>>]
Pending == [tag |-> "pending", val |-> <<>>]

(***************************************************************************)
(* ast nodes: ast.Name, ast.Constant, ast.BinOp                            *)
(***************************************************************************)
Name(id) == [type |-> "Name", id |-> id]
Constant(v) == [type |-> "Constant", value |-> v]
BinOp(l, op, r) == [type |-> "BinOp", op |-> op, left |-> l, right |-> r]

Operators == {"Add", "Sub", "Mult", "Div", "Pow"}
Leaves == {Name("x"), Name("y"), Name("z"), Constant(2)}

\* the expressions with exactly n binary operators
RECURSIVE TreesOfSize(_)
TreesOfSize(n) ==
    IF n = 0 THEN Leaves
    ELSE UNION { LET L == TreesOfSize(k)
                     R == TreesOfSize(n - 1 - k)
                 IN  { BinOp(l, op, r) : op \in Operators, l \in L, r \in R }
                 : k \in 0 .. (n - 1) }

\* the expressions with exactly n binary operators from ops over the leaves
\* in leaves
RECURSIVE TreesOver(_, _, _)
TreesOver(n, leaves, ops) ==
    IF n = 0 THEN leaves
    ELSE UNION { LET L == TreesOver(k, leaves, ops)
                     R == TreesOver(n - 1 - k, leaves, ops)
                 IN  { BinOp(l, op, r) : op \in ops, l \in L, r \in R }
                 : k \in 0 .. (n - 1) }

\* formulas with three operators: "(x*y)/(y*x)", "x/(x*(y/y))", "(x**y)*(x+y)"
DeepFormulas ==
    { BinOp(BinOp(Name("x"), "Mult", Name("y")), "Div",
            BinOp(Name("y"), "Mult", Name("x"))),
      BinOp(Name("x"), "Div",
            BinOp(Name("x"), "Mult", BinOp(Name("y"), "Div", Name("y")))),
      BinOp(BinOp(Name("x"), "Pow", Name("y")), "Mult",
            BinOp(Name("x"), "Add", Name("y"))) }

(***************************************************************************)
(* Physical dimensions as exponent vectors over the two base units the     *)
(* walkers know, for stating the claims.                                   *)
(***************************************************************************)
Vec(m, s) == [m |-> m, s |-> s]
VecAdd(a, b) == Vec(a.m + b.m, a.s + b.s)
VecSub(a, b) == Vec(a.m - b.m, a.s - b.s)
VecScale(a, k) == Vec(a.m * k, a.s * k)


(***************************************************************************)
(* Numbers: the IEEE 754 values of a grid cell, finite ones as fractions   *)
(* in lowest terms.                                                        *)
(***************************************************************************)
RECURSIVE Gcd(_, _)
Gcd(a, b) == IF b = 0 THEN a ELSE Gcd(b, a % b)
Abs(a) == IF a < 0 THEN -a ELSE a

Fin(n, d) ==
    LET g == Gcd(Abs(n), Abs(d))
        sgn == IF d < 0 THEN -1 ELSE 1
    IN  [k |-> "fin", n |-> (sgn * n) \div g, d |-> Abs(d) \div g]
Whole(n) == Fin(n, 1)
Inf == [k |-> "inf", n |-> 1, d |-> 0]
NegInf == [k |-> "inf", n |-> -1, d |-> 0]
NaN == [k |-> "nan", n |-> 0, d |-> 0]

\* the value None where a number, an array or a grid is expected
NoneCell == [k |-> "None", n |-> 0, d |-> 0]
NoneArr == <<NoneCell>>
NoneGrid == <<NoneArr>>

NumAdd(a, b) == Fin(a.n * b.d + b.n * a.d, a.d * b.d)
NumSub(a, b) == Fin(a.n * b.d - b.n * a.d, a.d * b.d)
NumLess(a, b) == a.n * b.d < b.n * a.d
\* int(a): truncation toward zero
IntOf(a) == IF a.n >= 0 THEN a.n \div a.d ELSE -((-a.n) \div a.d)
\* the least integer not below a
CeilOf(a) == -((-a.n) \div a.d)
NumMul(a, b) == Fin(a.n * b.n, a.d * b.d)
\* IEEE 754 division: x/0 is an infinity, 0/0 is NaN
NumDiv(a, b) ==
    IF b.n = 0
    THEN IF a.n > 0 THEN Inf ELSE IF a.n < 0 THEN NegInf ELSE NaN
    ELSE Fin(a.n * b.d, a.d * b.n)

(***************************************************************************)
(* The formulas handed to the Contour pipeline, as text.  "x +" is         *)
(* malformed; "x * y + 0 * z" names a variable that is not an axis.        *)
(***************************************************************************)
PipelineFormulas == {"x + y", "x * y", "x / y", "x * y + 0 * z", "x +"}

\* sympify(formula_): the parsed expression (sympy drops the term 0*z)
Sympify(f) ==
    CASE f = "x +" -> Raise("SympifyError")
      [] f = "x * y + 0 * z" -> Ok(<<"x * y">>)
      [] OTHER -> Ok(<<f>>)

\* ne.evaluate(formula_) at one cell; numexpr looks every name up in the
\* caller's frame, which holds x and y only
NeNames(f) == IF f = "x * y + 0 * z" THEN {"x", "y", "z"} ELSE {"x", "y"}
NeCell(f, x, y) ==
    CASE f = "x + y" -> NumAdd(x, y)
      [] f = "x * y" -> NumMul(x, y)
      [] f = "x / y" -> NumDiv(x, y)
      [] OTHER -> NaN

(***************************************************************************)
(* pint: unit strings, their dimensionality and their base units           *)
(***************************************************************************)
AxisUnits == {"m", "s", ""}
ResultUnits == {"m", "", "m*s", "m/s", "m**2"}

\* UREG.parse_expression(u).dimensionality
Dimensionality(u) ==
    CASE u \in {"m", "km", "meter"} -> Vec(1, 0)
      [] u \in {"s", "second"} -> Vec(0, 1)
      [] u = "m*s" -> Vec(1, 1)
      [] u = "m/s" -> Vec(1, -1)
      [] u = "m**2" -> Vec(2, 0)
      [] OTHER -> Vec(0, 0)

\* UnitQuantity(1, u).to_base_units().units
BaseUnit(u) ==
    CASE u \in {"m", "km"} -> "meter"
      [] u = "s" -> "second"
      [] OTHER -> "dimensionless"

\* the factor to_base_units() multiplies a magnitude in u by
ScaleFactor(u) == IF u = "km" THEN Whole(1000) ELSE Whole(1)

(***************************************************************************)
(* sympy expressions: head, name (of an atom) and args                     *)
(***************************************************************************)
Expr(head, name, args) == [head |-> head, name |-> name, args |-> args]
Quantity(n) == Expr("Quantity", n, <<>>)
Symbol(n) == Expr("Symbol", n, <<>>)
\* a sympy Integer, named by its text
Integer(n) == Expr("Integer", n, <<>>)
\* a pint Unit handed to sympy, before sympify has seen it
PintUnit(n) == Expr("pint.Unit", n, <<>>)
Mul(a, b) == Expr("Mul", "", <<a, b>>)
Add(a, b) == Expr("Add", "", <<a, b>>)
Pow(a, b) == Expr("Pow", "", <<a, b>>)

(***************************************************************************)
(* map_base_units.py                                                       *)
(***************************************************************************)
\* the keys of unit_mapping_pint_sympy: pint units
PintKeys == {"meter", "second", "ampere", "candela", "gram", "mole",
             "kelvin", "radian"}

\* the keys of sympy_to_pint_mapping: sympy quantities
SympyKeys == { Quantity(n) : n \in {"meter", "second", "ampere", "candela",
                                    "kilogram", "mole", "kelvin", "radian"} }

\* unit_mapping_pint_sympy[u]
unit_mapping_pint_sympy(u) ==
    IF u = "gram" THEN Mul(Expr("Rational", "1/1000", <<>>), Quantity("kilogram"))
    ELSE Quantity(u)

\* sympy_to_pint_mapping[q], as the text pint prints for it
sympy_to_pint_mapping(q) ==
    IF q.name = "kilogram" THEN "1000 gram" ELSE q.name

\* pint_to_sympy_unit(value, pint_unit): the units of the parsed text
\* f'{value} {pint_unit}' looked up in unit_mapping_pint_sympy
pint_to_sympy_unit(value, pint_unit) ==
    LET units == IF pint_unit = "" THEN "dimensionless" ELSE pint_unit
    IN  IF units \in PintKeys THEN Ok(<<unit_mapping_pint_sympy(units)>>)
        ELSE Raise("KeyError")

\* create_sympy_quantity(value, sympy_unit) for the value 1: 1 * unit is unit
create_sympy_quantity(value, sympy_unit) == sympy_unit

\* expr.args: a number comes first; the order sympy gives the other operands
\* of a commutative node is left open
Permutations2(a) == { a, <<a[2], a[1]>> }
ArgOrders(e) ==
    CASE e.head = "Pow" -> { e.args }
      [] e.head \in {"Mul", "Add"} ->
           IF e.args[1].head \in {"Integer", "Rational"} THEN { e.args }
           ELSE Permutations2(e.args)
      [] e.head = "Quantity" -> { <<Symbol(e.name), Symbol(e.name)>> }
      [] OTHER -> { <<>> }

\* the dimensionalities pint may read from the text f'{value} {pint_unit}'
\* ('1/second meter' is read left to right or as 1/(second meter))
ParsedDims(value, pint_unit) ==
    LET u == Dimensionality(pint_unit)
    IN  CASE value.head \in {"Quantity", "Symbol"} ->
               { VecAdd(Dimensionality(value.name), u) }
          [] value.head = "Pow" ->
               LET b == Dimensionality(value.args[1].name)
               IN  { VecSub(u, b), VecSub(VecScale(u, -1), b) }
          [] OTHER -> { u }

\* a pint quantity standing for a unit, or the exception in its place
UOk(d) == [tag |-> "ok", err |-> "", dim |-> d]
URaise(e) == [tag |-> "raise", err |-> e, dim |-> Vec(0, 0)]

\* sympy_to_pint_quantity(sympy_quantity): the outcomes, one per order of args
sympy_to_pint_quantity(e) ==
    UNION { IF Len(a) # 2 THEN { URaise("ValueError") }
            ELSE IF a[2] \notin SympyKeys THEN { URaise("KeyError") }
            ELSE { UOk(d) :
                   d \in ParsedDims(a[1], sympy_to_pint_mapping(a[2])) }
            : a \in ArgOrders(e) }

(***************************************************************************)
(* formula_ast_dim.py                                                      *)
(***************************************************************************)
\* DIMENSIONS.get(id, None)
DIMENSIONS(id) ==
    CASE id = "x" -> <<"m">>
      [] id = "y" -> <<"s">>
      [] OTHER -> None

DimensionMismatch == <<"Dimension Mismatch">>
UnhandledOperator == <<"Unhandled Operator">>

\* lines 35-42: the dimension of a visited BinOp from its operands' dimensions
BinOpDim(op, left_dim, right_dim) ==
    CASE op = "Mult" ->
           IF left_dim = None \/ right_dim = None THEN Raise("TypeError")
           ELSE Ok(left_dim \o <<"*">> \o right_dim)
      [] op \in {"Add", "Sub"} ->
           Ok(IF left_dim = right_dim THEN left_dim ELSE DimensionMismatch)
      [] op = "Div" ->
           IF left_dim = right_dim THEN Ok(EmptyStr)
           ELSE IF left_dim = None \/ right_dim = None THEN Raise("TypeError")
           ELSE Ok(left_dim \o <<"/">> \o right_dim)
      [] OTHER -> Ok(UnhandledOperator)

Top(s) == s[Len(s)]

\* a pop that leaves the entry on the stack
PopNothing(s) == s

Pop(s) == SubSeq(s, 1, Len(s) - 1)

\* lines 21-24: the call, up to the loop
PostOrderCall ==
    /\ po_pc = "idle"
    /\ \/ \E n \in 0 .. MaxOps :
            IF n = 0
            THEN \E f \in Leaves :
                   /\ formula' = f
                   /\ stack' = << <<FALSE, f>> >>
            ELSE \E op \in Operators, k \in 0 .. (n - 1) :
                   \E l \in TreesOfSize(k), r \in TreesOfSize(n - 1 - k) :
                     /\ formula' = BinOp(l, op, r)
                     /\ stack' = << <<FALSE, BinOp(l, op, r)>> >>
       \/ \E f \in DeepFormulas :
            /\ formula' = f
            /\ stack' = << <<FALSE, f>> >>
    /\ out' = <<>>
    /\ po_pc' = "loop"
    /\ UNCHANGED <<po_ret, ret96, fn_vars, run_vars, ax_vars, dims_vars, pure_vars>>

\* the call for a formula of any shape with up to MaxShapeOps operators,
\* over a name and a literal, with a handled and an unhandled operator
PostOrderCallShapes ==
    /\ po_pc = "idle"
    /\ \E n \in 0 .. MaxShapeOps :
         \E f \in TreesOver(n, {Name("x"), Constant(2)}, {"Mult", "Pow"}) :
           /\ formula' = f
           /\ stack' = << <<FALSE, f>> >>
    /\ out' = <<>>
    /\ po_pc' = "loop"
    /\ UNCHANGED <<po_ret, ret96, fn_vars, run_vars, ax_vars, dims_vars, pure_vars>>

\* lines 26-47: one iteration of the while loop
PostOrderStep ==
    /\ po_pc = "loop"
    /\ stack # <<>>
    /\ LET visit == Top(stack)[1]
           node == Top(stack)[2]
           rest == Pop(stack)
       IN  CASE node.type = "Name" ->
                  /\ out' = Append(out, DIMENSIONS(node.id))
                  /\ stack' = rest
                  /\ UNCHANGED <<po_pc, po_ret>>
             [] node.type = "BinOp" /\ visit ->
                  IF Len(out) < 2
                  THEN \* out.pop() on an empty list
                       /\ out' = <<>>
                       /\ stack' = rest
                       /\ po_pc' = "raised"
                       /\ po_ret' = Raise("IndexError")
                  ELSE LET right_dim == out[Len(out)]
                           left_dim == out[Len(out) - 1]
                           r == BinOpDim(node.op, left_dim, right_dim)
                       IN  IF r.tag = "raise"
                           THEN /\ out' = SubSeq(out, 1, Len(out) - 2)
                                /\ stack' = rest
                                /\ po_pc' = "raised"
                                /\ po_ret' = r
                           ELSE /\ out' = Append(SubSeq(out, 1, Len(out) - 2), r.val)
                                /\ stack' = rest
                                /\ UNCHANGED <<po_pc, po_ret>>
             [] node.type = "BinOp" /\ ~visit ->
                  /\ stack' = rest \o << <<TRUE, node>>,
                                         <<FALSE, node.right>>,
                                         <<FALSE, node.left>> >>
                  /\ UNCHANGED <<out, po_pc, po_ret>>
             [] OTHER ->
                  \* "Skipping node type ...": nothing is appended to out
                  /\ stack' = rest
                  /\ UNCHANGED <<out, po_pc, po_ret>>
    /\ UNCHANGED <<formula, ret96, fn_vars, run_vars, ax_vars, dims_vars, pure_vars>>

\* line 49: return out[0]
PostOrderReturn ==
    /\ po_pc = "loop"
    /\ stack = <<>>
    /\ IF out = <<>>
       THEN /\ po_pc' = "raised"
            /\ po_ret' = Raise("IndexError")
       ELSE /\ po_pc' = "done"
            /\ po_ret' = Ok(out[1])
    /\ UNCHANGED <<formula, stack, out, ret96, fn_vars, run_vars, ax_vars, dims_vars, pure_vars>>

(***************************************************************************)
(* formula_ast_dim_96.py: the recursive walker.  Its strings are sliced,   *)
(* so they are sequences of characters here.                               *)
(***************************************************************************)
\* DIMENSIONS.get(node.id, None)
DIMENSIONS96(id) ==
    CASE id = "x" -> <<"m">>
      [] id = "y" -> <<"m">>
      [] OTHER -> None

Error96 == <<"E", "r", "r", "o", "r">>

\* str.startswith
StartsWith(s, p) == Len(p) <= Len(s) /\ SubSeq(s, 1, Len(p)) = p

\* s.replace(p, '', 1) for a string s that starts with p
ReplaceFirst(s, p) == SubSeq(s, Len(p) + 1, Len(s))

\* lines 18-33: the value of a BinOp from the values of its operands
BinOpDim96(op, left_dim, right_dim) ==
    CASE op = "Mult" ->
           IF left_dim = None \/ right_dim = None THEN Raise("TypeError")
           ELSE Ok(left_dim \o right_dim)
      [] op \in {"Add", "Sub"} ->
           Ok(IF left_dim = right_dim THEN left_dim ELSE Error96)
      [] op = "Div" ->
           IF left_dim = right_dim THEN Ok(EmptyStr)
           ELSE IF left_dim = None THEN Raise("AttributeError")
           ELSE IF right_dim = None THEN Raise("TypeError")
           ELSE IF StartsWith(left_dim, right_dim)
                THEN Ok(ReplaceFirst(left_dim, right_dim))
                ELSE Ok(Error96)
      [] OTHER -> Ok(Error96)

\* lines 6-36: post_order(node)
RECURSIVE PostOrder96(_)
PostOrder96(node) ==
    CASE node.type = "Name" -> Ok(DIMENSIONS96(node.id))
      [] node.type = "BinOp" ->
           LET l == PostOrder96(node.left)
           IN  IF l.tag = "raise" THEN l
               ELSE LET r == PostOrder96(node.right)
                    IN  IF r.tag = "raise" THEN r
                        ELSE BinOpDim96(node.op, l.val, r.val)
      [] OTHER -> Ok(EmptyStr)

\* a call post_order(ast.parse(formula).body[0].value)
PostOrder96Call ==
    /\ ret96 = Pending
    /\ \/ \E n \in 0 .. MaxOps :
            IF n = 0
            THEN \E f \in Leaves :
                   /\ formula' = f
                   /\ ret96' = PostOrder96(f)
            ELSE \E op \in Operators, k \in 0 .. (n - 1) :
                   \E l \in TreesOfSize(k), r \in TreesOfSize(n - 1 - k) :
                     /\ formula' = BinOp(l, op, r)
                     /\ ret96' = PostOrder96(BinOp(l, op, r))
       \/ \E f \in DeepFormulas :
            /\ formula' = f
            /\ ret96' = PostOrder96(f)
    /\ UNCHANGED <<stack, out, po_pc, po_ret, fn_vars, run_vars, ax_vars, dims_vars, pure_vars>>

(***************************************************************************)
(* bivarcontours.py: calculate_z and runtime_calculate_z.  The module      *)
(* imports the conversion helpers from the package result_unit; they are   *)
(* modelled by the copy the repository keeps in map_base_units.py.         *)
(*                                                                         *)
(* What the libraries do is modelled as follows.  sympy simplifies on      *)
(* construction: u + u is 2*u, u*u is u**2, u/u is the Integer 1 (whose    *)
(* args are empty), 0*z is 0.  The keys of sympy_to_pint_mapping are sympy *)
(* quantities; a Symbol of the same name is a different object and not a   *)
(* key.  pint reads the text 'a b' as the product of a and b.  numexpr     *)
(* follows IEEE 754 and raises KeyError for a name it cannot find.         *)
(* UREG.Quantity(None, unit) raises TypeError.  Where the behaviour is not *)
(* fixed by the source (the order of the args of a commutative node, how   *)
(* pint reads '1/b a', whether sympify still parses the text of a foreign  *)
(* object) every outcome is kept.                                          *)
(***************************************************************************)
\* what a call produced: the magnitude (a grid of cells) and dimensionality
\* of the returned quantity, or the exception the caller sees (err) and the
\* exception first raised inside the call (detected)
QOk(mag, dim) ==
    [tag |-> "ok", err |-> "", detected |-> "", mag |-> mag, dim |-> dim]
QRaise(err, detected) ==
    [tag |-> "raise", err |-> err, detected |-> detected, mag |-> <<>>,
     dim |-> Vec(0, 0)]
\* DimensionalityError(actual_dim, expected_dim)
DimensionalityError(actual_dim) ==
    [tag |-> "raise", err |-> "DimensionalityError",
     detected |-> "DimensionalityError", mag |-> <<>>, dim |-> actual_dim]
QPending ==
    [tag |-> "pending", err |-> "", detected |-> "", mag |-> <<>>,
     dim |-> Vec(0, 0)]

\* the arguments x_, y_ of calculate_z: a plain number or a pint quantity
Number(n) == [kind |-> "number", mag |-> Whole(n), unit |-> ""]
UnitQuantity(n, u) == [kind |-> "quantity", mag |-> Whole(n), unit |-> u]

\* a cell holding a sympy symbol; Matrix([[x, y]]).evalf() is a 1 x 2 grid
SymCell(name) == [k |-> name, n |-> 0, d |-> 0]
MatrixXY == << <<SymCell("x"), SymCell("y")>> >>

\* lines 273-278: is_dimensionless(value); a plain number has no
\* to_base_units and comes back with the base ""
is_dimensionless(value) ==
    IF value.kind = "quantity"
    THEN [magnitude |-> value.mag, base |-> BaseUnit(value.unit)]
    ELSE [magnitude |-> value.mag, base |-> ""]

\* sympify of a unit inside convert_to: a sympy quantity is kept; a pint Unit
\* is not a sympy object, and sympify either parses its text into a Symbol
\* or, where the string fallback is gone, raises SympifyError
ConvertTo(unit) ==
    IF unit.head = "pint.Unit"
    THEN { Ok(<<Symbol(unit.name)>>), Raise("SympifyError") }
    ELSE { Ok(<<unit>>) }

\* parsed_formula.subs({x: a, y: b}) with sympy's automatic simplification
SubsUnits(f, a, b) ==
    CASE f = "x + y" -> IF a = b THEN Mul(Integer("2"), a) ELSE Add(a, b)
      [] f = "x * y" -> IF a = b THEN Pow(a, Integer("2")) ELSE Mul(a, b)
      [] OTHER -> IF a = b THEN Integer("1")
                  ELSE Mul(a, Pow(b, Integer("-1")))

\* lines 66-75: result_unit_of_formula for units convert_to has returned
result_unit_of_formula(parsed_formula, x_unit, y_unit) ==
    SubsUnits(parsed_formula, x_unit, y_unit)

\* a comparison that lets every dimensionality through
DimensionsNeverDiffer(actual_dim, expected_dim) == FALSE

\* the comparison of the two dimensionalities (lines 155-158, 240-241)
DimensionsDiffer(actual_dim, expected_dim) == actual_dim # expected_dim

\* lines 164-243: calculate_z(formula_, x_, y_, z_dim), every outcome
calculate_z(formula_, x_, y_, z_dim) ==
    LET xd == is_dimensionless(x_)
        yd == is_dimensionless(y_)
        parsed == Sympify(formula_)
        sx == pint_to_sympy_unit(xd.magnitude, xd.base)
        sy == pint_to_sympy_unit(yd.magnitude, yd.base)
    IN  IF parsed.tag = "raise"
        THEN { QRaise("ValueError", parsed.val[1]) }
        ELSE IF sx.tag = "raise" THEN { QRaise(sx.val[1], sx.val[1]) }
        ELSE IF sy.tag = "raise" THEN { QRaise(sy.val[1], sy.val[1]) }
        ELSE LET e == result_unit_of_formula(parsed.val[1],
                          create_sympy_quantity(xd.magnitude, sx.val[1]),
                          create_sympy_quantity(yd.magnitude, sy.val[1]))
             IN  { IF u.tag = "raise" THEN QRaise(u.err, u.err)
                   ELSE IF DimensionsDiffer(u.dim, Dimensionality(z_dim))
                   THEN DimensionalityError(u.dim)
                   ELSE QOk(MatrixXY, u.dim)
                   : u \in sympy_to_pint_quantity(e) }

\* np.meshgrid(xs, ys): one row per y, one column per x
MeshgridX(xs, ys) == [i \in 1 .. Len(ys) |-> xs]
MeshgridY(xs, ys) == [i \in 1 .. Len(ys) |-> [j \in 1 .. Len(xs) |-> ys[i]]]

\* lines 148-152: ne.evaluate(formula_) over the arrays x and y; a name that
\* is neither x nor y is a KeyError
NeEvaluate(f, x, y) ==
    IF NeNames(f) \subseteq {"x", "y"}
    THEN [tag |-> "ok", err |-> "",
          grid |-> [i \in 1 .. Len(x) |->
                     [j \in 1 .. Len(x[i]) |-> NeCell(f, x[i][j], y[i][j])]]]
    ELSE [tag |-> "raise", err |-> "KeyError", grid |-> <<>>]

\* lines 78-161: runtime_calculate_z(formula_, x_, y_, x_base, y_base, z_dim),
\* every outcome.  When ne.evaluate raises, the handler prints and goes on
\* with result = None, which UREG.Quantity rejects with TypeError.
runtime_calculate_z(formula_, x_, y_, x_base, y_base, z_dim) ==
    LET parsed == Sympify(formula_)
        ev == NeEvaluate(formula_, x_, y_)
    IN  IF parsed.tag = "raise"
        THEN { QRaise("ValueError", parsed.val[1]) }
        ELSE UNION { IF bx.tag = "raise" THEN { QRaise(bx.val[1], bx.val[1]) }
                     ELSE IF by.tag = "raise"
                     THEN { QRaise(by.val[1], by.val[1]) }
                     ELSE { IF u.tag = "raise" THEN QRaise(u.err, u.err)
                            ELSE IF ev.tag = "raise"
                            THEN QRaise("TypeError", ev.err)
                            ELSE IF DimensionsDiffer(u.dim,
                                                     Dimensionality(z_dim))
                            THEN DimensionalityError(u.dim)
                            ELSE QOk(ev.grid, u.dim)
                            : u \in sympy_to_pint_quantity(
                                      result_unit_of_formula(parsed.val[1],
                                          bx.val[1], by.val[1])) }
                     : bx \in ConvertTo(x_base), by \in ConvertTo(y_base) }

(***************************************************************************)
(* bivarcontours.py: axis sample generation, in exact arithmetic           *)
(***************************************************************************)
\* the operands for which (stop - start) / step, computed in IEEE 754
\* doubles, lies above the exact quotient far enough to raise its ceiling
\* by one: (1.3 - 1) / 0.1 is 3.0000000000000004.  For every other operand
\* triple of the model the double quotient has the ceiling of the exact one.
DoubleRoundsUp(start, stop, step) ==
    <<start, stop, step>> \in { <<Whole(1), Fin(13, 10), Fin(1, 10)>> }

\* np.arange(start, stop, step): ceil((stop - start) / step) samples, the
\* quotient computed in doubles
Arange(start, stop, step) ==
    LET len == IF NumLess(start, stop)
               THEN CeilOf(NumDiv(NumSub(stop, start), step))
                    + (IF DoubleRoundsUp(start, stop, step) THEN 1 ELSE 0)
               ELSE 0
    IN  IF len = 0 THEN <<>>
        ELSE [i \in 1 .. len |-> NumAdd(start, NumMul(Whole(i - 1), step))]

\* np.linspace(start, stop, num)
Linspace(start, stop, num) ==
    IF num = 0 THEN <<>>
    ELSE IF num = 1 THEN <<start>>
    ELSE [i \in 1 .. num |->
            NumAdd(start, NumDiv(NumMul(Whole(i - 1), NumSub(stop, start)),
                                 Whole(num - 1)))]

\* the square root of a fraction where it is a fraction, else a cell that
\* stands for an irrational sample
IsSquare(n) == \E r \in 0 .. n : r * r = n
SqrtOf(a) ==
    IF IsSquare(a.n) /\ IsSquare(a.d)
    THEN Fin(CHOOSE r \in 0 .. a.n : r * r = a.n,
             CHOOSE r \in 1 .. a.d : r * r = a.d)
    ELSE [k |-> "irrational", n |-> a.n, d |-> a.d]

\* np.logspace(np.log10(start), np.log10(stop), num) for 0 < start: the
\* geometric progression from start to stop
Logspace(start, stop, num) ==
    IF num = 0 THEN <<>>
    ELSE [i \in 1 .. num |->
            IF i = 1 THEN start
            ELSE IF i = num THEN stop
            ELSE IF num = 3 THEN SqrtOf(NumMul(start, stop))
            ELSE [k |-> "irrational", n |-> i - 1, d |-> num - 1]]

\* lines 361-368: _generate_values(start, stop, step_interval, nstep, log)
_generate_values(start, stop, step_interval, nstep, log) ==
    IF nstep /\ log THEN Logspace(start, stop, IntOf(step_interval))
    ELSE IF nstep /\ ~log THEN Linspace(start, stop, IntOf(step_interval))
    ELSE Arange(start, stop, step_interval)

\* a pint quantity: magnitude and unit
PintQuantity(mag, unit) == [mag |-> mag, unit |-> unit]

\* lines 328-342: _set_correct_units_for_dimension
_set_correct_units_for_dimension(dimension, min_value, max_value, step_value) ==
    [min |-> PintQuantity(min_value, dimension),
     max |-> PintQuantity(max_value, dimension),
     step |-> PintQuantity(step_value, dimension)]

\* quantity.to_base_units()
to_base_units(q) ==
    PintQuantity(NumMul(q.mag, ScaleFactor(q.unit)), BaseUnit(q.unit))

\* lines 307-325: _convert_units_to_dimensionless_and_get_interval
_convert_units_to_dimensionless_and_get_interval(min_value, max_value, step_value, num) ==
    [start |-> to_base_units(min_value).mag,
     base_unit |-> to_base_units(min_value).unit,
     stop |-> to_base_units(max_value).mag,
     interval |-> IF num THEN Whole(IntOf(step_value.mag))
                  ELSE to_base_units(step_value).mag]

(***************************************************************************)
(* bivarcontours.py: file names.  A file name is a sequence of tokens: a   *)
(* token is one character that is not a word character and not '.', or a   *)
(* run of word characters and dots ("title", "_X_", "1", ".png").          *)
(***************************************************************************)
\* f'{value:.2f}' for a value that is not negative
Format2f(a) ==
    LET r == (200 * a.n + a.d) \div (2 * a.d)
    IN  <<ToString(r \div 100), ".", ToString((r % 100) \div 10),
          ToString(r % 10)>>

\* the characters of the model that r'[^\w\.]' matches (line 381)
NonWordChars == {"/", "*", "@", " ", "\n", "-", "^"}

\* the characters of the model that r'[^\\/:*?"<>|@\s]' excludes (line 373)
ForbiddenChars == {"/", "*", "@", " ", "\n"}

\* the text of a unit name as tokens
UnitText(u) ==
    CASE u = "" -> <<>>
      [] u = "m*s" -> <<"m", "*", "s">>
      [] u = "m/s" -> <<"m", "/", "s">>
      [] u = "m**2" -> <<"m", "*", "*", "2">>
      [] OTHER -> <<u>>

\* lines 371-376: _is_valid_filename: not blank and a match of the pattern;
\* '$' also matches just before a newline that ends the string
_is_valid_filename(filename) ==
    LET n == Len(filename)
    IN  /\ filename # <<>>
        /\ \/ \A i \in 1 .. n : filename[i] \notin ForbiddenChars
           \/ /\ n >= 2
              /\ filename[n] = "\n"
              /\ \A i \in 1 .. (n - 1) : filename[i] \notin ForbiddenChars

\* a variant of _sanitize_filename that replaces the path separator only
_sanitize_separators(filename) ==
    [i \in DOMAIN filename |->
       IF filename[i] = "/" THEN "_" ELSE filename[i]]

\* lines 379-384: _sanitize_filename
_sanitize_filename(filename) ==
    [i \in DOMAIN filename |->
       IF filename[i] \in NonWordChars THEN "_" ELSE filename[i]]

\* the arguments of a direct call of calculate_z or runtime_calculate_z
NoBase == Expr("None", "", <<>>)
NoCall ==
    [fn |-> "none", formula_ |-> "", x_ |-> <<>>, y_ |-> <<>>,
     x_base |-> NoBase, y_base |-> NoBase, z_dim |-> ""]

\* no direct call of unit_validation yet
NoUv == [dims |-> <<>>, ret |-> Pending]

\* no base unit looked up in the two tables yet
NoRt == [unit |-> "", sympy |-> Expr("None", "", <<>>), back |-> Pending]

\* no direct call of _sanitize_filename yet
NoSf == [filename |-> None, ret |-> None, again |-> None, valid |-> FALSE]

(***************************************************************************)
(* bivarcontours.py: class Contour                                         *)
(***************************************************************************)
\* what the method called on the Contour produced: nothing yet, a normal
\* return, or the exception the caller sees with the one first raised
RPending == [tag |-> "pending", err |-> "", detected |-> ""]
ROk == [tag |-> "ok", err |-> "", detected |-> ""]
RRaise(err, detected) == [tag |-> "raise", err |-> err, detected |-> detected]

\* the value None where a quantity is expected
NoneQuantity == PintQuantity(NoneCell, "None")
NoneArrQuantity == PintQuantity(NoneArr, "None")
NoneGridQuantity == PintQuantity(NoneGrid, "None")
NoneResult == [mag |-> NoneGrid, dim |-> Vec(0, 0)]

\* lines 452-488: the attributes __init__ sets to None, and no object yet
NoContour ==
    [title |-> "None", formula |-> "None", dim_res |-> "None",
     nstep_x |-> FALSE, nstep_y |-> FALSE, x_log |-> FALSE, y_log |-> FALSE,
     swap_axes |-> FALSE,
     label_1 |-> "None", label_2 |-> "None",
     min_1 |-> NoneCell, max_1 |-> NoneCell, step_1 |-> NoneCell,
     dim_1 |-> "None",
     min_2 |-> NoneCell, max_2 |-> NoneCell, step_2 |-> NoneCell,
     dim_2 |-> "None",
     unity_res |-> NoneQuantity,
     start_1 |-> NoneCell, base_unit_1 |-> "None", stop_1 |-> NoneCell,
     step_1_interval |-> NoneCell,
     start_2 |-> NoneCell, base_unit_2 |-> "None", stop_2 |-> NoneCell,
     step_2_interval |-> NoneCell,
     label_x |-> "None", label_y |-> "None",
     x_np_values |-> NoneArr, y_np_values |-> NoneArr,
     x_values |-> NoneArrQuantity, y_values |-> NoneArrQuantity,
     filename |-> None,
     X |-> NoneGridQuantity, Y |-> NoneGridQuantity,
     np_X |-> NoneGrid, np_Y |-> NoneGrid,
     vals |-> NoneResult, hl |-> NoneResult]

\* the axis specifications (min, max, step) handed to the constructor
AxisSpecs ==
    { [min |-> Whole(1), max |-> Whole(2), step |-> Fin(1, 2)],
      [min |-> Whole(1), max |-> Whole(4), step |-> Whole(3)],
      [min |-> Whole(2), max |-> Whole(1), step |-> Whole(1)] }

\* lines 492-530: initialize_swapping_axes
initialize_swapping_axes(c, label_1, label_2, a1, dim_1, a2, dim_2) ==
    IF c.swap_axes
    THEN [c EXCEPT !.label_1 = label_2, !.label_2 = label_1,
                   !.min_1 = a2.min, !.max_1 = a2.max, !.step_1 = a2.step,
                   !.dim_1 = dim_2,
                   !.min_2 = a1.min, !.max_2 = a1.max, !.step_2 = a1.step,
                   !.dim_2 = dim_1]
    ELSE [c EXCEPT !.label_1 = label_1, !.label_2 = label_2,
                   !.min_1 = a1.min, !.max_1 = a1.max, !.step_1 = a1.step,
                   !.dim_1 = dim_1,
                   !.min_2 = a2.min, !.max_2 = a2.max, !.step_2 = a2.step,
                   !.dim_2 = dim_2]

\* the unit names the pint registry defines, of those the model uses;
\* UnitQuantity(1, dim) raises UndefinedUnitError for any other name
DefinedUnits ==
    {"m", "s", "", "km", "m*s", "m/s", "m**2", "pound", "inch", "week",
     "mile", "day"}

\* a variant of unit_validation that looks at the first name only
unit_validation_first(dims_) ==
    IF dims_ # <<>> /\ Head(dims_) \notin DefinedUnits
    THEN Raise("UnitError") ELSE Ok(None)

\* lines 290-304: unit_validation
RECURSIVE unit_validation(_)
unit_validation(dims_) ==
    IF dims_ = <<>> THEN Ok(None)
    ELSE IF Head(dims_) \notin DefinedUnits THEN Raise("UnitError")
    ELSE unit_validation(Tail(dims_))

NoAxis == [min |-> NoneCell, max |-> NoneCell, step |-> NoneCell]
NoArgs ==
    [formula |-> "None", dim_res |-> "None", dim_1 |-> "None",
     dim_2 |-> "None", a1 |-> NoAxis, a2 |-> NoAxis,
     nstep_x |-> FALSE, nstep_y |-> FALSE, x_log |-> FALSE, y_log |-> FALSE,
     swap_axes |-> FALSE]

\* lines 429-490: Contour.__init__
Construct ==
    /\ pc = 0 /\ run_ret = RPending /\ self = NoContour /\ fn_call = NoCall
    /\ init_args = NoArgs /\ uv = NoUv /\ sf = NoSf /\ rt = NoRt
    /\ \E f \in PipelineFormulas, dim_res \in ResultUnits \cup {"bogus_dim"},
          dim_1 \in AxisUnits \cup {"bogus1"},
          dim_2 \in AxisUnits \cup {"bogus2"},
          a1 \in AxisSpecs, a2 \in AxisSpecs,
          nstep_x \in BOOLEAN, nstep_y \in BOOLEAN,
          x_log \in BOOLEAN, y_log \in BOOLEAN, swap_axes \in BOOLEAN :
         /\ init_args' = [formula |-> f, dim_res |-> dim_res, dim_1 |-> dim_1,
                     dim_2 |-> dim_2, a1 |-> a1, a2 |-> a2,
                     nstep_x |-> nstep_x, nstep_y |-> nstep_y,
                     x_log |-> x_log, y_log |-> y_log,
                     swap_axes |-> swap_axes]
         /\ IF unit_validation(<<dim_res, dim_1, dim_2>>).tag = "raise"
            THEN /\ self' = self
                 /\ run_ret' = RRaise("UnitError", "UndefinedUnitError")
            ELSE IF /\ NumLess(a1.min, a1.max) /\ NumLess(a2.min, a2.max)
                    /\ a1.step.n > 0 /\ a2.step.n > 0
            THEN /\ self' = initialize_swapping_axes(
                              [NoContour EXCEPT !.title = "title",
                                  !.formula = f, !.dim_res = dim_res,
                                  !.nstep_x = nstep_x, !.nstep_y = nstep_y,
                                  !.x_log = x_log, !.y_log = y_log,
                                  !.swap_axes = swap_axes],
                              "label_1", "label_2", a1, dim_1, a2, dim_2)
                 /\ run_ret' = RPending
            ELSE /\ self' = self
                 /\ run_ret' = RRaise("AssertionError", "AssertionError")
    /\ UNCHANGED <<entry, pc, executed, res, uv, sf, rt, simp, po_vars, fn_vars,
                   ax_vars, dims_vars>>

\* the lists of names handed to a direct call of unit_validation
UnitNames == {"pound", "inch", "m", "bogus1", "bogus2"}
MaxDims == 3

\* a direct call of unit_validation (tests/test_bivarcontours.py lines 83-86)
UnitValidationCall ==
    /\ uv = NoUv /\ sf = NoSf /\ rt = NoRt
    /\ self = NoContour /\ run_ret = RPending /\ fn_call = NoCall
    /\ \E n \in 0 .. MaxDims :
         \E dims_ \in [1 .. n -> UnitNames] :
           uv' = [dims |-> dims_, ret |-> unit_validation(dims_)]
    /\ UNCHANGED <<init_args, sf, rt, simp, po_vars, fn_vars, run_vars, ax_vars,
                   dims_vars>>

\* map_base_units.py lines 36 and 45: a key of unit_mapping_pint_sympy is
\* looked up, and what it gave is looked up in sympy_to_pint_mapping; a
\* dictionary subscript with a missing key raises KeyError
UnitRoundTripCall ==
    /\ rt = NoRt /\ uv = NoUv /\ sf = NoSf
    /\ self = NoContour /\ run_ret = RPending /\ fn_call = NoCall
    /\ \E u \in PintKeys :
         LET sympy_unit == unit_mapping_pint_sympy(u)
         IN  rt' = [unit |-> u, sympy |-> sympy_unit,
                    back |-> IF sympy_unit \in SympyKeys
                             THEN Ok(<<sympy_to_pint_mapping(sympy_unit)>>)
                             ELSE Raise("KeyError")]
    /\ UNCHANGED <<init_args, uv, sf, simp, po_vars, fn_vars, run_vars,
                   ax_vars, dims_vars>>

\* the characters of the file names handed to a direct call
FilenameChars == {"a", "_", ".", "/", "*", "@", " ", "\n", "-", "^"}
MaxLen == 3

\* a direct call of _sanitize_filename, then of _sanitize_filename and of
\* _is_valid_filename on what it returned
SanitizeFilenameCall ==
    /\ sf = NoSf /\ uv = NoUv /\ rt = NoRt
    /\ self = NoContour /\ run_ret = RPending /\ fn_call = NoCall
    /\ \E n \in 0 .. MaxLen :
         \E f \in [1 .. n -> FilenameChars] :
           LET r == _sanitize_filename(f)
           IN  sf' = [filename |-> f, ret |-> r,
                      again |-> _sanitize_filename(r),
                      valid |-> _is_valid_filename(r)]
    /\ UNCHANGED <<init_args, uv, rt, simp, po_vars, fn_vars, run_vars, ax_vars,
                   dims_vars>>

\* a variant of initialize_values that generates the samples before the
\* pre-check
SamplingBeforePreCheck ==
    <<"unity_res",
      "initialize_dimension_one_values",
      "initialize_dimension_two_values",
      "initialize_diagram_labels",
      "set_values_for_contour_calc_with_scalars_scaled_to_base_units",
      "calculate_z",
      "filename_for_saved_contour_figure">>

\* lines 532-557: the steps of initialize_values, in order
InitializeValuesSteps ==
    <<"unity_res",
      "initialize_dimension_one_values",
      "initialize_dimension_two_values",
      "calculate_z",
      "initialize_diagram_labels",
      "set_values_for_contour_calc_with_scalars_scaled_to_base_units",
      "filename_for_saved_contour_figure">>

\* lines 748-763: the steps of run after initialize_values, in order
RunSteps ==
    <<"initialize_dimension_one_values",
      "initialize_dimension_two_values",
      "initialize_diagram_labels",
      "set_values_for_contour_calc_with_scalars_scaled_to_base_units",
      "filename_for_saved_contour_figure",
      "compute_values",
      "create_diagram">>

Program(m) ==
    IF m = "run" THEN InitializeValuesSteps \o RunSteps
    ELSE InitializeValuesSteps

\* a caller invokes run() or initialize_values() on the new object
CallMethod ==
    /\ self # NoContour /\ entry = "none" /\ run_ret = RPending
    /\ \E m \in {"run", "initialize_values"} : entry' = m
    /\ pc' = 1
    /\ UNCHANGED <<self, executed, res, run_ret, po_vars, fn_vars, ax_vars, dims_vars, pure_vars>>

\* the method is about to execute the step
At(step) ==
    /\ run_ret = RPending
    /\ entry # "none"
    /\ pc \in 1 .. Len(Program(entry))
    /\ Program(entry)[pc] = step

\* the step returns: on to the next one, or back to the caller
Advance ==
    /\ pc' = pc + 1
    /\ executed' = Append(executed, Program(entry)[pc])
    /\ run_ret' = IF pc = Len(Program(entry)) THEN ROk ELSE RPending

\* the step raises: nothing in initialize_values or run catches it
Fail(err, detected) ==
    /\ pc' = pc
    /\ executed' = Append(executed, Program(entry)[pc])
    /\ run_ret' = RRaise(err, detected)

(***************************************************************************)
(* Direct calls of the two functions, as the tests and other callers make  *)
(* them.                                                                   *)
(***************************************************************************)
ScalarArgs == { Number(5), Number(0), Number(7), UnitQuantity(1, "m"),
                UnitQuantity(1, "s"), UnitQuantity(1, "") }
BaseArgs == { PintUnit("meter"), PintUnit("second"), Quantity("meter"),
              Quantity("second") }
XSamples == { <<Whole(5)>>, <<Whole(1), Whole(2)>> }
YSamples == { <<Whole(0), Whole(1)>>, <<Whole(7)>> }

CalculateZCall ==
    /\ fn_call = NoCall /\ uv = NoUv /\ sf = NoSf /\ rt = NoRt
    /\ self = NoContour /\ run_ret = RPending
    /\ \E f \in PipelineFormulas, x \in ScalarArgs, y \in ScalarArgs,
          z \in ResultUnits :
         /\ fn_call' = [fn |-> "calculate_z", formula_ |-> f, x_ |-> x,
                        y_ |-> y, x_base |-> NoBase, y_base |-> NoBase,
                        z_dim |-> z]
         /\ fn_ret' \in calculate_z(f, x, y, z)
    /\ UNCHANGED <<po_vars, run_vars, ax_vars, dims_vars, pure_vars>>

RuntimeCalculateZCall ==
    /\ fn_call = NoCall /\ uv = NoUv /\ sf = NoSf /\ rt = NoRt
    /\ self = NoContour /\ run_ret = RPending
    /\ \E f \in PipelineFormulas, xs \in XSamples, ys \in YSamples,
          bx \in BaseArgs, by \in BaseArgs, z \in ResultUnits :
         /\ fn_call' = [fn |-> "runtime_calculate_z", formula_ |-> f,
                        x_ |-> MeshgridX(xs, ys), y_ |-> MeshgridY(xs, ys),
                        x_base |-> bx, y_base |-> by, z_dim |-> z]
         /\ fn_ret' \in runtime_calculate_z(f, MeshgridX(xs, ys),
                                            MeshgridY(xs, ys), bx, by, z)
    /\ UNCHANGED <<po_vars, run_vars, ax_vars, dims_vars, pure_vars>>

\* line 538: self.unity_res = UnitQuantity(1, self.dim_res)
InitializeValuesBegin ==
    /\ At("unity_res")
    /\ self' = [self EXCEPT !.unity_res = PintQuantity(Whole(1), self.dim_res)]
    /\ Advance
    /\ UNCHANGED <<entry, res, po_vars, fn_vars, ax_vars, dims_vars, pure_vars>>

\* lines 559-569: initialize_dimension_one_values
InitializeDimensionOneValues ==
    /\ At("initialize_dimension_one_values")
    /\ LET u == _set_correct_units_for_dimension(self.dim_1, self.min_1,
                                                 self.max_1, self.step_1)
           v == _convert_units_to_dimensionless_and_get_interval(
                    u.min, u.max, u.step, self.nstep_x)
       IN  self' = [self EXCEPT !.start_1 = v.start,
                                !.base_unit_1 = v.base_unit,
                                !.stop_1 = v.stop,
                                !.step_1_interval = v.interval]
    /\ Advance
    /\ UNCHANGED <<entry, res, po_vars, fn_vars, ax_vars, dims_vars, pure_vars>>

\* lines 571-581: initialize_dimension_two_values
InitializeDimensionTwoValues ==
    /\ At("initialize_dimension_two_values")
    /\ LET u == _set_correct_units_for_dimension(self.dim_2, self.min_2,
                                                 self.max_2, self.step_2)
           v == _convert_units_to_dimensionless_and_get_interval(
                    u.min, u.max, u.step, self.nstep_y)
       IN  self' = [self EXCEPT !.start_2 = v.start,
                                !.base_unit_2 = v.base_unit,
                                !.stop_2 = v.stop,
                                !.step_2_interval = v.interval]
    /\ Advance
    /\ UNCHANGED <<entry, res, po_vars, fn_vars, ax_vars, dims_vars, pure_vars>>

\* lines 541-551: the pre-check of initialize_values: calculate_z on the
\* quantities 1 dim_1 and 1 dim_2, then the comparison with unity_res
PreCheck ==
    /\ At("calculate_z")
    /\ \E r \in calculate_z(self.formula, UnitQuantity(1, self.dim_1),
                            UnitQuantity(1, self.dim_2), self.dim_res) :
         /\ res' = r
         /\ IF r.tag = "raise" THEN Fail(r.err, r.detected)
            ELSE IF r.dim # Dimensionality(self.unity_res.unit)
            THEN Fail("UnitError", "UnitError")
            ELSE Advance
    /\ UNCHANGED <<self, entry, po_vars, fn_vars, ax_vars, dims_vars, pure_vars>>

\* lines 583-590: initialize_diagram_labels
InitializeDiagramLabels ==
    /\ At("initialize_diagram_labels")
    /\ self' = [self EXCEPT
                  !.label_x = IF self.swap_axes THEN self.label_2
                              ELSE self.label_1,
                  !.label_y = IF self.swap_axes THEN self.label_1
                              ELSE self.label_2]
    /\ Advance
    /\ UNCHANGED <<entry, res, po_vars, fn_vars, ax_vars, dims_vars, pure_vars>>

\* lines 592-608: set_values_for_contour_calc_with_scalars_scaled_to_base_units
SetValues ==
    /\ At("set_values_for_contour_calc_with_scalars_scaled_to_base_units")
    /\ LET xs == _generate_values(self.start_1, self.stop_1,
                                  self.step_1_interval, self.nstep_x,
                                  self.x_log)
           ys == _generate_values(self.start_2, self.stop_2,
                                  self.step_2_interval, self.nstep_y,
                                  self.y_log)
       IN  self' = [self EXCEPT
                      !.x_np_values = xs,
                      !.y_np_values = ys,
                      !.x_values = PintQuantity(xs, self.base_unit_1),
                      !.y_values = PintQuantity(ys, self.base_unit_2)]
    /\ Advance
    /\ UNCHANGED <<entry, res, po_vars, fn_vars, ax_vars, dims_vars, pure_vars>>

\* lines 610-632: filename_for_saved_contour_figure; indexing an empty
\* array is an IndexError
FilenameForSavedContourFigure ==
    /\ At("filename_for_saved_contour_figure")
    /\ LET xs == self.x_values.mag
           ys == self.y_values.mag
           dim_res == IF self.dim_res = "" THEN <<"dimensionless">>
                      ELSE UnitText(self.dim_res)
       IN  IF xs = <<>> \/ ys = <<>>
           THEN /\ self' = self
                /\ Fail("IndexError", "IndexError")
           ELSE LET filename ==
                      <<"F_", self.title, "_">> \o dim_res \o <<"_X_">>
                      \o UnitText(self.dim_1) \o <<"_">>
                      \o Format2f(xs[1]) \o <<"-">>
                      \o Format2f(xs[Len(xs)]) \o <<"_Y_">>
                      \o UnitText(self.dim_2) \o <<"_">>
                      \o Format2f(ys[1]) \o <<"-">>
                      \o Format2f(ys[Len(ys)]) \o <<".png">>
                IN  /\ self' = [self EXCEPT !.filename =
                                  IF _is_valid_filename(filename)
                                  THEN filename
                                  ELSE _sanitize_filename(filename)]
                    /\ Advance
    /\ UNCHANGED <<entry, res, po_vars, fn_vars, ax_vars, dims_vars, pure_vars>>

\* lines 634-652: compute_values; both calls of runtime_calculate_z have
\* the same arguments and so the same outcome.  The base units handed over
\* are pint units, which runtime_calculate_z substitutes without the
\* conversion calculate_z applies (lines 126-130 are commented out), so
\* every outcome here is an exception: run does not get to create_diagram,
\* the last step of Program("run"), and no action models that step.
ComputeValues ==
    /\ At("compute_values")
    /\ LET np_X == MeshgridX(self.x_np_values, self.y_np_values)
           np_Y == MeshgridY(self.x_np_values, self.y_np_values)
           grids == [self EXCEPT
                       !.X = PintQuantity(np_X, self.base_unit_1),
                       !.Y = PintQuantity(np_Y, self.base_unit_2),
                       !.np_X = np_X, !.np_Y = np_Y]
       IN  \E r \in runtime_calculate_z(self.formula, np_X, np_Y,
                                        PintUnit(self.base_unit_1),
                                        PintUnit(self.base_unit_2),
                                        self.dim_res) :
             IF r.tag = "raise"
             THEN /\ self' = grids
                  /\ Fail(r.err, r.detected)
             ELSE /\ self' = [grids EXCEPT
                                !.vals = [mag |-> r.mag, dim |-> r.dim],
                                !.hl = [mag |-> r.mag, dim |-> r.dim]]
                  /\ Advance
    /\ UNCHANGED <<entry, res, po_vars, fn_vars, ax_vars, dims_vars, pure_vars>>

(***************************************************************************)
(* One axis on its way through Contour: the value checks of __init__, the  *)
(* conversion of initialize_dimension_one_values and the generation of     *)
(* set_values_for_contour_calc_with_scalars_scaled_to_base_units.          *)
(***************************************************************************)
NoAxisCall ==
    [min |-> NoneCell, max |-> NoneCell, step |-> NoneCell, dim |-> "None",
     nstep |-> FALSE, log |-> FALSE]

\* the axes (min, max, step) handed to the constructor
AxisInputs ==
    AxisSpecs \cup
    { [min |-> Whole(1), max |-> Whole(2), step |-> Fin(1, 10)],
      [min |-> Whole(1), max |-> Fin(13, 10), step |-> Fin(1, 10)],
      [min |-> Whole(1), max |-> Whole(3), step |-> Whole(1)],
      [min |-> Whole(1), max |-> Whole(3), step |-> Whole(2)],
      [min |-> Whole(1), max |-> Whole(2), step |-> Fin(5, 2)],
      [min |-> Whole(1), max |-> Whole(2), step |-> Whole(0)] }

AxisInputUnits == AxisUnits \cup {"km"}

\* lines 452-455: the value checks of __init__ for one axis
AxisAccepted(a) == NumLess(a.min, a.max) /\ a.step.n > 0

AxisSamplesCall ==
    /\ ax_call = NoAxisCall /\ ax_ret = Pending
    /\ \E a \in AxisInputs, dim \in AxisInputUnits, nstep \in BOOLEAN,
          log \in BOOLEAN :
         IF AxisAccepted(a)
         THEN LET u == _set_correct_units_for_dimension(dim, a.min, a.max,
                                                        a.step)
                  v == _convert_units_to_dimensionless_and_get_interval(
                           u.min, u.max, u.step, nstep)
              IN  /\ ax_call' = [min |-> a.min, max |-> a.max,
                                 step |-> a.step, dim |-> dim,
                                 nstep |-> nstep, log |-> log]
                  /\ ax_ret' = [tag |-> "ok",
                                val |-> _generate_values(v.start, v.stop,
                                            v.interval, nstep, log)]
         ELSE /\ ax_call' = ax_call
              /\ ax_ret' = [tag |-> "raise", val |-> <<>>]
    /\ UNCHANGED <<po_vars, fn_vars, run_vars, dims_vars, pure_vars>>

(***************************************************************************)
(* formula_ast_dim.post_order as a function of the formula and of the      *)
(* module's DIMENSIONS dictionary: the while loop of lines 26-47 run to    *)
(* its end, then the return of line 49.                                    *)
(***************************************************************************)
\* a lookup that ignores the identifier
DimensionsGetFirst(d, id) == d["x"]

\* line 29: DIMENSIONS.get(node.id, None) for a dictionary d
DimensionsGet(d, id) == IF id \in DOMAIN d THEN d[id] ELSE None

RECURSIVE PostOrderLoop(_, _, _)
PostOrderLoop(stk, o, d) ==
    IF stk = <<>>
    THEN IF o = <<>> THEN Raise("IndexError") ELSE Ok(o[1])
    ELSE LET visit == Top(stk)[1]
             node == Top(stk)[2]
             rest == Pop(stk)
         IN  CASE node.type = "Name" ->
                    PostOrderLoop(rest, Append(o, DimensionsGet(d, node.id)), d)
               [] node.type = "BinOp" /\ visit ->
                    IF Len(o) < 2 THEN Raise("IndexError")
                    ELSE LET r == BinOpDim(node.op, o[Len(o) - 1], o[Len(o)])
                         IN  IF r.tag = "raise" THEN r
                             ELSE PostOrderLoop(rest,
                                      Append(SubSeq(o, 1, Len(o) - 2), r.val), d)
               [] node.type = "BinOp" /\ ~visit ->
                    PostOrderLoop(rest \o << <<TRUE, node>>,
                                             <<FALSE, node.right>>,
                                             <<FALSE, node.left>> >>, o, d)
               [] OTHER -> PostOrderLoop(rest, o, d)

post_order(f, d) == PostOrderLoop(<< <<FALSE, f>> >>, <<>>, d)

\* the dictionary of line 18
ModuleDimensions == [x |-> <<"m">>, y |-> <<"s">>]

\* the dimension strings a DIMENSIONS entry is drawn from
DimensionStrings ==
    { <<"m">>, <<"s">>, <<"kg">>, <<"A">>, <<"K">>, <<"mol">>, <<"cd">>,
      <<"rad">>, <<>>, <<"m", "*", "s">>, <<"m", "/", "s">> }

NoDims == [x |-> None, y |-> None]
NoDimsRet == [xy |-> Pending, yx |-> Pending]

\* post_order("x*y") with DIMENSIONS = {'x': da, 'y': db} and
\* post_order("y*x") with DIMENSIONS = {'x': db, 'y': da}
PropagateCall ==
    /\ dims_ret = NoDimsRet
    /\ \E da \in DimensionStrings, db \in DimensionStrings :
         /\ dims' = [x |-> da, y |-> db]
         /\ dims_ret' =
              [xy |-> post_order(BinOp(Name("x"), "Mult", Name("y")),
                                 [x |-> da, y |-> db]),
               yx |-> post_order(BinOp(Name("y"), "Mult", Name("x")),
                                 [x |-> db, y |-> da])]
    /\ UNCHANGED <<po_vars, fn_vars, run_vars, ax_vars, pure_vars>>

(***************************************************************************)
(* tests/test_formula_ast_dim.py, test_simplify_equivalent_formulas:       *)
(* post_order(formula) against post_order(str(simplify(sympify(formula)))).*)
(* sympy is a library; SimplifiedStr tabulates what str(simplify(...))     *)
(* parses to for the formulas below: sympy orders the operands of a        *)
(* commutative node (x before y, a number first in a product and last in a *)
(* sum), collects equal terms (x + x is 2*x, (x + y) + y is x + 2*y) and   *)
(* equal factors (x*x is x**2), and cancels x/x to 1.                      *)
(***************************************************************************)
SimplifyFormulas ==
    { BinOp(Name("x"), "Add", Name("y")),
      BinOp(Name("y"), "Add", Name("x")),
      BinOp(Name("x"), "Sub", Name("y")),
      BinOp(Name("x"), "Mult", Name("y")),
      BinOp(Name("y"), "Mult", Name("x")),
      BinOp(Name("x"), "Div", Name("y")),
      BinOp(Name("x"), "Pow", Name("y")),
      BinOp(Name("x"), "Pow", Constant(2)),
      BinOp(Name("x"), "Mult", Name("x")),
      BinOp(Name("x"), "Add", Name("x")),
      BinOp(Name("x"), "Div", Name("x")),
      BinOp(BinOp(Name("x"), "Add", Name("y")), "Add", Name("y")) }

SimplifiedStr(f) ==
    CASE f = BinOp(Name("y"), "Add", Name("x")) ->
           BinOp(Name("x"), "Add", Name("y"))
      [] f = BinOp(Name("y"), "Mult", Name("x")) ->
           BinOp(Name("x"), "Mult", Name("y"))
      [] f = BinOp(Name("x"), "Mult", Name("x")) ->
           BinOp(Name("x"), "Pow", Constant(2))
      [] f = BinOp(Name("x"), "Add", Name("x")) ->
           BinOp(Constant(2), "Mult", Name("x"))
      [] f = BinOp(Name("x"), "Div", Name("x")) -> Constant(1)
      [] f = BinOp(BinOp(Name("x"), "Add", Name("y")), "Add", Name("y")) ->
           BinOp(Name("x"), "Add", BinOp(Constant(2), "Mult", Name("y")))
      [] OTHER -> f

NoSimp == [f |-> Constant(0), g |-> Constant(0), r_dim1 |-> Pending,
           r_dim2 |-> Pending]

\* lines 23-24 of the test for one formula
SimplifyCall ==
    /\ simp = NoSimp
    /\ \E f \in SimplifyFormulas :
         simp' = [f |-> f, g |-> SimplifiedStr(f),
                  r_dim1 |-> post_order(f, ModuleDimensions),
                  r_dim2 |-> post_order(SimplifiedStr(f), ModuleDimensions)]
    /\ UNCHANGED <<init_args, uv, sf, rt, po_vars, fn_vars, run_vars, ax_vars,
                   dims_vars>>

Init ==
    /\ formula = Name("x")
    /\ stack = <<>>
    /\ out = <<>>
    /\ po_pc = "idle"
    /\ po_ret = Pending
    /\ ret96 = Pending
    /\ fn_call = NoCall
    /\ fn_ret = QPending
    /\ self = NoContour
    /\ entry = "none"
    /\ pc = 0
    /\ executed = <<>>
    /\ res = QPending
    /\ run_ret = RPending
    /\ ax_call = NoAxisCall
    /\ ax_ret = Pending
    /\ dims = NoDims
    /\ dims_ret = NoDimsRet
    /\ simp = NoSimp
    /\ init_args = NoArgs
    /\ uv = NoUv
    /\ sf = NoSf
    /\ rt = NoRt

NextPostOrder == PostOrderCall \/ PostOrderStep \/ PostOrderReturn

SpecPostOrder == Init /\ [][NextPostOrder]_vars

\* the interpreter goes on executing a loop it has entered, and the return
\* that follows it
NextPostOrderShapes ==
    PostOrderCallShapes \/ PostOrderStep \/ PostOrderReturn

SpecPostOrderLive ==
    /\ Init
    /\ [][NextPostOrderShapes]_vars
    /\ WF_vars(PostOrderStep)
    /\ WF_vars(PostOrderReturn)

NextPostOrder96 == PostOrder96Call

SpecPostOrder96 == Init /\ [][NextPostOrder96]_vars

NextContour ==
    \/ UnitValidationCall
    \/ UnitRoundTripCall
    \/ SanitizeFilenameCall
    \/ CalculateZCall
    \/ RuntimeCalculateZCall
    \/ Construct
    \/ CallMethod
    \/ InitializeValuesBegin
    \/ InitializeDimensionOneValues
    \/ InitializeDimensionTwoValues
    \/ PreCheck
    \/ InitializeDiagramLabels
    \/ SetValues
    \/ FilenameForSavedContourFigure
    \/ ComputeValues

SpecContour == Init /\ [][NextContour]_vars

NextAxis == AxisSamplesCall

SpecAxis == Init /\ [][NextAxis]_vars

NextPropagate == PropagateCall \/ SimplifyCall

SpecPropagate == Init /\ [][NextPropagate]_vars

\* the loop taken step by step and the loop as a function produce the same
PostOrderLoopAgrees ==
    po_pc \in {"done", "raised"} => po_ret = post_order(formula, ModuleDimensions)

\* the dimension of a node when x has dimension dx and y has dimension dy
RECURSIVE VecDim(_, _, _)
VecDim(node, dx, dy) ==
    CASE node.type = "Name" -> IF node.id = "x" THEN dx ELSE dy
      [] node.type = "Constant" -> Vec(0, 0)
      [] OTHER ->
           LET l == VecDim(node.left, dx, dy)
               r == VecDim(node.right, dx, dy)
           IN  CASE node.op = "Mult" -> VecAdd(l, r)
                 [] node.op = "Div" -> VecSub(l, r)
                 [] node.op = "Pow" ->
                      IF node.right.type = "Constant"
                      THEN VecScale(l, node.right.value) ELSE l
                 [] OTHER -> l

\* some Add or Sub node of the formula has operands of different dimension
RECURSIVE HasMismatch(_, _, _)
HasMismatch(node, dx, dy) ==
    /\ node.type = "BinOp"
    /\ \/ /\ node.op \in {"Add", "Sub"}
          /\ VecDim(node.left, dx, dy) # VecDim(node.right, dx, dy)
       \/ HasMismatch(node.left, dx, dy)
       \/ HasMismatch(node.right, dx, dy)

\* the formula is built from the names x and y and the operators in ops
RECURSIVE Over(_, _)
Over(node, ops) ==
    \/ node.type = "Name" /\ node.id \in {"x", "y"}
    \/ /\ node.type = "BinOp"
       /\ node.op \in ops
       /\ Over(node.left, ops)
       /\ Over(node.right, ops)

\* the string of n characters "m"
RECURSIVE Ms(_)
Ms(n) == IF n = 0 THEN <<>> ELSE <<"m">> \o Ms(n - 1)

(***************************************************************************)
(* C1: in post_order (formula_ast_dim.py, x in m and y in s), whenever an  *)
(* Add or Sub node of the formula has operands of different dimension, the *)
(* value returned for the whole formula is 'Dimension Mismatch', whatever  *)
(* operators enclose that node.                                            *)
(***************************************************************************)
C1_MismatchIsReturned ==
    (/\ po_pc = "done"
     /\ Over(formula, {"Add", "Sub", "Mult", "Div"})
     /\ HasMismatch(formula, Vec(1, 0), Vec(0, 1)))
    => po_ret = Ok(DimensionMismatch)

(***************************************************************************)
(* C2: in post_order (formula_ast_dim_96.py, x and y in m) the dimension   *)
(* of a formula of products and quotients is the exponent-vector           *)
(* difference: the call returns a dimension and never the error value, and *)
(* for a non-negative exponent n of m it returns the n-fold m.             *)
(***************************************************************************)
C2_DivIsExponentDifference ==
    (/\ ret96 # Pending
     /\ Over(formula, {"Mult", "Div"}))
    => /\ ret96.tag = "ok"
       /\ ret96.val # Error96
       /\ LET n == VecDim(formula, Vec(1, 0), Vec(1, 0)).m
          IN  n >= 0 => ret96.val = Ms(n)

(***************************************************************************)
(* C3: post_order (formula_ast_dim.py) gives every numeric literal the     *)
(* dimensionless dimension and scales the base's dimension for Pow with a  *)
(* literal exponent: "x**2" with x in m propagates to m squared.           *)
(***************************************************************************)
MeterSquared == { <<"m", "^", "2">>, <<"m", "**", "2">>, <<"m", "*", "m">> }

C3_PowScalesDimension ==
    (/\ po_pc \in {"done", "raised"}
     /\ formula = BinOp(Name("x"), "Pow", Constant(2)))
    => /\ po_ret.tag = "ok"
       /\ po_ret.val \in MeterSquared

(***************************************************************************)
(* Contour: what has happened so far                                       *)
(***************************************************************************)
\* the step has been executed (it returned or raised)
Executed(step) == \E i \in DOMAIN executed : executed[i] = step

\* an axis sample array or a meshgrid has been generated
Sampled ==
    \/ self.x_np_values # NoneArr
    \/ self.y_np_values # NoneArr
    \/ self.np_X # NoneGrid
    \/ self.np_Y # NoneGrid

SamplingSteps ==
    {"set_values_for_contour_calc_with_scalars_scaled_to_base_units",
     "compute_values", "create_diagram"}

(***************************************************************************)
(* C4: in initialize_values and in run, the pre-check (calculate_z on the  *)
(* quantities 1 dim_1 and 1 dim_2, compared with the declared result unit) *)
(* has completed with a matching dimension before any sample array or      *)
(* meshgrid exists; when the pre-check raises, the caller gets the error   *)
(* and set_values_for_contour_calc_with_scalars_scaled_to_base_units,      *)
(* compute_values and create_diagram are never executed.                   *)
(***************************************************************************)
C4_PreCheckBeforeSampling ==
    /\ (Sampled \/ \E step \in SamplingSteps : Executed(step))
         => /\ res.tag = "ok"
            /\ res.dim = Dimensionality(self.dim_res)
    /\ (res.tag = "raise" \/ run_ret.err = "UnitError")
         => /\ run_ret.tag = "raise"
            /\ ~Sampled
            /\ \A step \in SamplingSteps : ~Executed(step)

\* the pre-check has passed and the samples of both axes exist
C4_Witness ==
    /\ res.tag = "ok"
    /\ Executed("set_values_for_contour_calc_with_scalars_scaled_to_base_units")
    /\ Sampled

C6_PathsAgree ==
    (Executed("compute_values") /\ res.tag = "ok")
      => /\ run_ret.tag # "raise"
         /\ self.vals.dim = res.dim

(***************************************************************************)
(* C7: fail closed: the exception the caller sees is the exception that    *)
(* was raised at the point of detection, for a method of Contour and for a *)
(* direct call of calculate_z or runtime_calculate_z.                      *)
(***************************************************************************)
C7_FailClosed ==
    /\ run_ret.tag = "raise" => run_ret.err = run_ret.detected
    /\ fn_ret.tag = "raise" => fn_ret.err = fn_ret.detected

(***************************************************************************)
(* C8: calculate_z on plain numbers raises ZeroDivisionError where the     *)
(* formula divides by zero, and returns the value of the formula           *)
(* otherwise: 'x / y' at (5, 0) raises, 'x + y' at (5, 7) returns 12.      *)
(***************************************************************************)
C8_ScalarDivisionByZero ==
    (/\ fn_call.fn = "calculate_z"
     /\ fn_call.x_.kind = "number"
     /\ fn_call.y_.kind = "number"
     /\ fn_call.z_dim = "")
      => /\ (fn_call.formula_ = "x / y" /\ fn_call.y_ = Number(0))
              => fn_ret.err = "ZeroDivisionError"
         /\ (fn_call.formula_ = "x + y" /\ fn_call.x_ = Number(5)
             /\ fn_call.y_ = Number(7))
              => /\ fn_ret.tag = "ok"
                 /\ fn_ret.mag = << <<Whole(12)>> >>

(***************************************************************************)
(* C9: runtime_calculate_z over arrays in which y holds a zero does not    *)
(* raise for 'x / y': it returns the grid whose cells are the IEEE         *)
(* quotients, an infinity or NaN where y is zero.                          *)
(***************************************************************************)
C9_GridSingularities ==
    (/\ fn_call.fn = "runtime_calculate_z"
     /\ fn_call.formula_ = "x / y"
     /\ fn_call.z_dim = ""
     /\ \E i \in DOMAIN fn_call.y_ : \E j \in DOMAIN fn_call.y_[i] :
          fn_call.y_[i][j] = Whole(0))
      => /\ fn_ret.tag = "ok"
         /\ \A i \in DOMAIN fn_call.y_ : \A j \in DOMAIN fn_call.y_[i] :
              fn_ret.mag[i][j] = NumDiv(fn_call.x_[i][j], fn_call.y_[i][j])

(***************************************************************************)
(* C10: an axis in step mode with the logarithmic flag set is rejected:    *)
(* once the sample generation step has been executed for such an axis the  *)
(* method has raised and the axis has no samples.                          *)
(***************************************************************************)
C10_StepLogRejected ==
    (/\ Executed("set_values_for_contour_calc_with_scalars_scaled_to_base_units")
     /\ ~self.nstep_x
     /\ self.x_log)
      => /\ run_ret.tag = "raise"
         /\ self.x_np_values = NoneArr

(***************************************************************************)
(* C11: in count mode, linear or logarithmic, an axis accepted by the      *)
(* constructor gets exactly count samples, the first one start and the     *)
(* last one stop, in base units.                                           *)
(***************************************************************************)
C11_CountSamples ==
    (ax_ret.tag = "ok" /\ ax_call.nstep)
      => LET start == NumMul(ax_call.min, ScaleFactor(ax_call.dim))
             stop == NumMul(ax_call.max, ScaleFactor(ax_call.dim))
             n == Len(ax_ret.val)
         IN  /\ n = IntOf(ax_call.step)
             /\ n >= 1
             /\ ax_ret.val[1] = start
             /\ ax_ret.val[n] = stop

(***************************************************************************)
(* C12: in step mode without the log flag the samples are start,           *)
(* start + step, start + 2*step, ... in base units, all of them below stop *)
(* and as many as fit below stop; min 1, max 2, step 0.1 gives 10 samples. *)
(***************************************************************************)
C12_StepSamples ==
    (ax_ret.tag = "ok" /\ ~ax_call.nstep /\ ~ax_call.log)
      => LET start == NumMul(ax_call.min, ScaleFactor(ax_call.dim))
             stop == NumMul(ax_call.max, ScaleFactor(ax_call.dim))
             step == NumMul(ax_call.step, ScaleFactor(ax_call.dim))
             n == Len(ax_ret.val)
         IN  /\ \A i \in 1 .. n :
                  /\ ax_ret.val[i] = NumAdd(start, NumMul(Whole(i - 1), step))
                  /\ NumLess(ax_ret.val[i], stop)
             /\ ~NumLess(NumAdd(start, NumMul(Whole(n), step)), stop)
             /\ (/\ ax_call.min = Whole(1) /\ ax_call.max = Whole(2)
                 /\ ax_call.step = Fin(1, 10)) => n = 10

(***************************************************************************)
(* C13: validation happens at construction: a Contour object exists only   *)
(* for axes with min < max and, in step mode, a step above 0, in count     *)
(* mode, a count of at least 2.                                            *)
(***************************************************************************)
C13_ValidatedAtConstruction ==
    self # NoContour
      => /\ NumLess(self.min_1, self.max_1)
         /\ NumLess(self.min_2, self.max_2)
         /\ IF self.nstep_x THEN IntOf(self.step_1) >= 2
            ELSE self.step_1.n > 0
         /\ IF self.nstep_y THEN IntOf(self.step_2) >= 2
            ELSE self.step_2.n > 0

(***************************************************************************)
(* C14: degenerate sampling is detected: compute_values, which builds the  *)
(* grid, is executed only with at least two samples on each axis.          *)
(***************************************************************************)
C14_NoDegenerateAxis ==
    Executed("compute_values")
      => /\ Len(self.x_np_values) >= 2
         /\ Len(self.y_np_values) >= 2

(***************************************************************************)
(* C15: for "x / y" with both axes in second and a dimensionless target    *)
(* the result unit is dimensionless and both checkpoints succeed: a direct *)
(* call of calculate_z or runtime_calculate_z returns a dimensionless      *)
(* quantity, and in a Contour the pre-check passes and compute_values      *)
(* does not raise.                                                         *)
(***************************************************************************)
C15_QuotientOfEqualUnits ==
    /\ (/\ fn_call.fn = "calculate_z"
        /\ fn_call.formula_ = "x / y"
        /\ fn_call.x_ = UnitQuantity(1, "s")
        /\ fn_call.y_ = UnitQuantity(1, "s")
        /\ fn_call.z_dim = "")
         => fn_ret.tag = "ok" /\ fn_ret.dim = Vec(0, 0)
    /\ (/\ fn_call.fn = "runtime_calculate_z"
        /\ fn_call.formula_ = "x / y"
        /\ fn_call.x_base.name = "second"
        /\ fn_call.y_base = fn_call.x_base
        /\ fn_call.z_dim = "")
         => fn_ret.tag = "ok" /\ fn_ret.dim = Vec(0, 0)
    /\ (/\ self.formula = "x / y"
        /\ self.dim_1 = "s" /\ self.dim_2 = "s" /\ self.dim_res = "")
         => /\ Executed("calculate_z")
                 => res.tag = "ok" /\ res.dim = Vec(0, 0)
            /\ Executed("compute_values") => run_ret.tag # "raise"

(***************************************************************************)
(* C16: for "x * y" with both axes in meter and the target meter**2 the    *)
(* result unit is meter**2 and both checkpoints succeed: calculate_z       *)
(* returns a quantity of dimension length squared, and run on such a       *)
(* Contour does not end in an exception.                                   *)
(***************************************************************************)
C16_ProductOfEqualUnits ==
    /\ (/\ fn_call.fn = "calculate_z"
        /\ fn_call.formula_ = "x * y"
        /\ fn_call.x_ = UnitQuantity(1, "m")
        /\ fn_call.y_ = UnitQuantity(1, "m")
        /\ fn_call.z_dim = "m**2")
         => fn_ret.tag = "ok" /\ fn_ret.dim = Vec(2, 0)
    /\ (/\ self.formula = "x * y"
        /\ self.dim_1 = "m" /\ self.dim_2 = "m" /\ self.dim_res = "m**2")
         => /\ Executed("calculate_z")
                 => res.tag = "ok" /\ res.dim = Vec(2, 0)
            /\ run_ret.tag # "raise"

\* the formula contains an identifier other than x and y
RECURSIVE HasUnknownName(_)
HasUnknownName(node) ==
    \/ node.type = "Name" /\ node.id \notin {"x", "y"}
    \/ /\ node.type = "BinOp"
       /\ HasUnknownName(node.left) \/ HasUnknownName(node.right)

(***************************************************************************)
(* C17: post_order (formula_ast_dim.py) ends a call on a formula that      *)
(* contains an identifier other than x and y with an unknown-variable      *)
(* error: it returns neither a dimension nor None and raises no other      *)
(* error.                                                                  *)
(***************************************************************************)
C17_UnknownVariableFails ==
    (/\ po_pc \in {"done", "raised"}
     /\ HasUnknownName(formula))
    => /\ po_ret.tag = "raise"
       /\ po_ret.val = <<"UnknownVariableError">>

(***************************************************************************)
(* C18: post_order (formula_ast_dim.py) returns 'Unhandled Operator' for   *)
(* every formula whose operator is not one of + - * /, "x**2" included; it *)
(* neither raises nor returns a dimension.                                 *)
(***************************************************************************)
C18_UnhandledOperatorReported ==
    (/\ po_pc \in {"done", "raised"}
     /\ formula.type = "BinOp"
     /\ formula.op \notin {"Add", "Sub", "Mult", "Div"}
     /\ ~HasUnknownName(formula))
    => po_ret = Ok(UnhandledOperator)

(***************************************************************************)
(* C19: post_order (formula_ast_dim.py, x in m and y in s) returns the     *)
(* empty unit '' for a Div whose two operands, built from x and y with     *)
(* + - * / and free of mismatches, have the same dimension.                *)
(***************************************************************************)
C19_DivOfEqualIsDimensionless ==
    (/\ po_pc \in {"done", "raised"}
     /\ formula.type = "BinOp"
     /\ formula.op = "Div"
     /\ Over(formula, {"Add", "Sub", "Mult", "Div"})
     /\ ~HasMismatch(formula, Vec(1, 0), Vec(0, 1))
     /\ VecDim(formula.left, Vec(1, 0), Vec(0, 1))
          = VecDim(formula.right, Vec(1, 0), Vec(0, 1)))
    => po_ret = Ok(EmptyStr)

(***************************************************************************)
(* C20: for all dimensions da and db, post_order("x*y") with x in da and   *)
(* y in db produces the same as post_order("y*x") with x in db and y in    *)
(* da.                                                                     *)
(***************************************************************************)
C20_MultSymmetricUnderRenaming ==
    dims_ret # NoDimsRet
    => /\ dims_ret.xy = dims_ret.yx
       /\ dims_ret.xy = Ok(dims.x \o <<"*">> \o dims.y)

C20_Witness ==
    /\ dims = [x |-> <<"m">>, y |-> <<"s">>]
    /\ dims_ret.xy = Ok(<<"m", "*", "s">>)
    /\ dims_ret.yx = Ok(<<"m", "*", "s">>)

(***************************************************************************)
(* C21: post_order returns the same dimension for a formula over x and y   *)
(* with the operators + - * / ** and for the equivalent formula that       *)
(* simplification rewrites it to (operands reordered, terms collected).    *)
(***************************************************************************)
C21_SimplifiedHasSameDimension ==
    simp # NoSimp
    => /\ simp.r_dim1.tag = "ok"
       /\ simp.r_dim2 = simp.r_dim1

\* some name of the list is not defined in the registry
SomeUndefined(dims_) == \E i \in DOMAIN dims_ : dims_[i] \notin DefinedUnits

(***************************************************************************)
(* C22: unit_validation(dims) raises UnitError exactly when some name in   *)
(* dims is not defined in the unit registry and returns None otherwise;    *)
(* and a Contour constructor called with an undefined result or axis unit  *)
(* raises UnitError and produces no Contour object.                        *)
(***************************************************************************)
C22_UndefinedUnitRejected ==
    /\ uv # NoUv
         => uv.ret = (IF SomeUndefined(uv.dims) THEN Raise("UnitError")
                      ELSE Ok(None))
    /\ (init_args # NoArgs /\ SomeUndefined(<<init_args.dim_res, init_args.dim_1, init_args.dim_2>>))
         => /\ run_ret.tag = "raise" /\ run_ret.err = "UnitError"
            /\ self = NoContour
    /\ (init_args # NoArgs /\ run_ret.err = "UnitError")
         => SomeUndefined(<<init_args.dim_res, init_args.dim_1, init_args.dim_2>>)

C22_Witness ==
    /\ init_args # NoArgs
    /\ init_args.dim_res \in DefinedUnits /\ init_args.dim_1 \in DefinedUnits
    /\ init_args.dim_2 = "bogus2"
    /\ run_ret = RRaise("UnitError", "UndefinedUnitError")
    /\ self = NoContour

\* the dimension of a formula of the pipeline over axes of dimension d1 and
\* d2: consistent says whether it has one
FormulaDim(f, d1, d2) ==
    CASE f = "x + y" -> [consistent |-> d1 = d2, dim |-> d1]
      [] f = "x * y" -> [consistent |-> TRUE, dim |-> VecAdd(d1, d2)]
      [] f = "x / y" -> [consistent |-> TRUE, dim |-> VecSub(d1, d2)]
      [] OTHER -> [consistent |-> FALSE, dim |-> Vec(0, 0)]

\* the Contour's formula is one of x + y, x * y, x / y and its dimension over
\* the axis units is inconsistent or is not that of the declared result unit
FormulaMismatch ==
    /\ self.formula \in {"x + y", "x * y", "x / y"}
    /\ LET d == FormulaDim(self.formula, Dimensionality(self.dim_1),
                           Dimensionality(self.dim_2))
       IN  ~d.consistent \/ d.dim # Dimensionality(self.dim_res)

(***************************************************************************)
(* C23: when the dimension of the formula over the two axis units is       *)
(* inconsistent or differs from the declared result unit, the pre-check of *)
(* Contour.initialize_values does not return normally and the exception    *)
(* the caller sees is DimensionalityError.                                 *)
(***************************************************************************)
C23_MismatchIsDimensionalityError ==
    (Executed("calculate_z") /\ FormulaMismatch)
      => /\ run_ret.tag = "raise"
         /\ run_ret.err = "DimensionalityError"

(***************************************************************************)
(* C24: _sanitize_filename(f) has the length of f, has '_' where f has a   *)
(* character that is neither a word character nor '.', and the character   *)
(* of f elsewhere; sanitizing the result again changes nothing; for a      *)
(* non-empty f the result is accepted by _is_valid_filename; and the file  *)
(* name that filename_for_saved_contour_figure stores is accepted by       *)
(* _is_valid_filename.                                                     *)
(***************************************************************************)
C24_SanitizedIsValid ==
    /\ sf # NoSf
         => /\ Len(sf.ret) = Len(sf.filename)
            /\ \A i \in DOMAIN sf.filename :
                 sf.ret[i] = (IF sf.filename[i] \in {"a", "_", "."}
                              THEN sf.filename[i] ELSE "_")
            /\ sf.again = sf.ret
            /\ sf.filename # <<>> => sf.valid
    /\ self.filename # None
         => /\ _is_valid_filename(self.filename)
            /\ \A i \in DOMAIN self.filename :
                 self.filename[i] \notin {"/", "*", "@", " ", "\n"}

\* a Contour whose result unit is m/s has stored its file name, sanitized
C24_Witness ==
    /\ self.dim_res = "m/s"
    /\ self.filename # None
    /\ \E i \in DOMAIN self.filename :
         /\ i + 2 \in DOMAIN self.filename
         /\ self.filename[i] = "m"
         /\ self.filename[i + 1] = "_"
         /\ self.filename[i + 2] = "s"

(***************************************************************************)
(* C25: the steps of Contour complete each other: when initialize_values   *)
(* has returned normally, start_1, start_2, both base units, label_x,      *)
(* label_y, x_values, y_values and filename are set; and when run has      *)
(* executed compute_values, vals and hl are set.                           *)
(***************************************************************************)
C25_StepsCompleteEachOther ==
    /\ (entry = "initialize_values" /\ run_ret = ROk)
         => /\ self.start_1 # NoneCell /\ self.start_2 # NoneCell
            /\ self.base_unit_1 # "None" /\ self.base_unit_2 # "None"
            /\ self.label_x # "None" /\ self.label_y # "None"
            /\ self.x_values # NoneArrQuantity
            /\ self.y_values # NoneArrQuantity
            /\ self.filename # None
    /\ Executed("compute_values")
         => /\ self.vals # NoneResult
            /\ self.hl # NoneResult

\* the iterations the loop spends on a node pushed unvisited: one for a
\* leaf, two for a binary node (unvisited, then visited) plus its operands
RECURSIVE Iterations(_)
Iterations(node) ==
    IF node.type = "BinOp"
    THEN 2 + Iterations(node.left) + Iterations(node.right)
    ELSE 1

\* the iterations the entries of a work stack still stand for
RECURSIVE StackWork(_)
StackWork(s) ==
    IF s = <<>> THEN 0
    ELSE StackWork(SubSeq(s, 1, Len(s) - 1))
         + (IF s[Len(s)][1] THEN 1 ELSE Iterations(s[Len(s)][2]))

(***************************************************************************)
(* C26: the loop of post_order terminates for every expression tree: every *)
(* iteration takes one entry off the work the stack stands for, where a    *)
(* node pushed unvisited stands for one iteration if it is a leaf and two  *)
(* plus those of its operands if it is a binary node (so no node is pushed *)
(* more than twice); the stack is empty when the loop exits to the return; *)
(* and a call that has entered the loop ends, by a return or an exception. *)
(***************************************************************************)
C26_LoopTerminates ==
    /\ [][PostOrderStep => StackWork(stack') = StackWork(stack) - 1]_vars
    /\ [][PostOrderReturn => stack = <<>>]_vars
    /\ [](po_pc = "done" => stack = <<>>)
    /\ (po_pc = "loop") ~> (po_pc \in {"done", "raised"})

\* the loop has returned for a formula with three nested operators
C26_Witness ==
    /\ po_pc = "done"
    /\ stack = <<>>
    /\ formula.type = "BinOp"
    /\ formula.left.type = "BinOp"
    /\ formula.left.right.type = "BinOp"

\* the formula contains a numeric literal
RECURSIVE HasLiteral(_)
HasLiteral(node) ==
    \/ node.type = "Constant"
    \/ /\ node.type = "BinOp"
       /\ HasLiteral(node.left) \/ HasLiteral(node.right)

\* the loop is about to pop a binary node marked visited, and the top two
\* entries of the result stack are the results of its operands
ChildrenOnTop ==
    LET node == Top(stack)[2]
        l == post_order(node.left, ModuleDimensions)
        r == post_order(node.right, ModuleDimensions)
    IN  /\ Len(out) >= 2
        /\ l.tag = "ok" /\ out[Len(out) - 1] = l.val
        /\ r.tag = "ok" /\ out[Len(out)] = r.val

(***************************************************************************)
(* C27: for a formula over x, y, numeric literals and binary operators:    *)
(* when the loop of post_order is about to pop a binary node marked        *)
(* visited, the results of its two operands are the top two entries of the *)
(* result stack, the right one on top; and when the loop exits the result  *)
(* stack holds exactly one entry.                                          *)
(***************************************************************************)
C27_StackDiscipline ==
    (po_pc = "loop" /\ ~HasUnknownName(formula))
      => /\ (stack # <<>> /\ Top(stack)[1]) => ChildrenOnTop
         /\ stack = <<>> => Len(out) = 1

\* the same for the formulas without a numeric literal, where it holds
StackDisciplineWithoutLiterals ==
    (po_pc = "loop" /\ ~HasUnknownName(formula) /\ ~HasLiteral(formula))
      => /\ (stack # <<>> /\ Top(stack)[1]) => ChildrenOnTop
         /\ stack = <<>> => Len(out) = 1

\* ---------------------------------------------------------------------
\* Labels and sampling flags through an axis swap
\* ---------------------------------------------------------------------

\* the axis of the constructor call whose minimum, maximum, step and unit
\* initialize_swapping_axes stored as axis 1 (lines 492-530): x_values are
\* generated from these (lines 559-569, 592-608)
CallerAxisOfX == IF init_args.swap_axes THEN 2 ELSE 1
CallerAxisOfY == IF init_args.swap_axes THEN 1 ELSE 2

\* what the constructor call said about one of its two axes
CallerLabel(k) == IF k = 1 THEN "label_1" ELSE "label_2"
CallerValues(k) == IF k = 1 THEN init_args.a1 ELSE init_args.a2
CallerUnit(k) == IF k = 1 THEN init_args.dim_1 ELSE init_args.dim_2
CallerNstep(k) == IF k = 1 THEN init_args.nstep_x ELSE init_args.nstep_y
CallerLog(k) == IF k = 1 THEN init_args.x_log ELSE init_args.y_log

\* the samples of one axis of the constructor call, generated with the
\* flags the call gave for that axis
CallerSamples(k) ==
    LET a == CallerValues(k)
        u == _set_correct_units_for_dimension(CallerUnit(k), a.min, a.max,
                                              a.step)
        v == _convert_units_to_dimensionless_and_get_interval(
                 u.min, u.max, u.step, CallerNstep(k))
    IN  _generate_values(v.start, v.stop, v.interval, CallerNstep(k),
                         CallerLog(k))

\* set_values_for_contour_calc_with_scalars_scaled_to_base_units has run
SamplesGenerated ==
    Executed("set_values_for_contour_calc_with_scalars_scaled_to_base_units")

\* C28: once the labels are set, label_x is the label the call gave for
\* the axis whose minimum, maximum, step and unit produce x_values, and
\* label_y the one for the axis that produces y_values, swap or no swap.
C28_LabelsFollowData ==
    Executed("initialize_diagram_labels") =>
        /\ self.min_1 = CallerValues(CallerAxisOfX).min
        /\ self.max_1 = CallerValues(CallerAxisOfX).max
        /\ self.step_1 = CallerValues(CallerAxisOfX).step
        /\ self.dim_1 = CallerUnit(CallerAxisOfX)
        /\ self.min_2 = CallerValues(CallerAxisOfY).min
        /\ self.dim_2 = CallerUnit(CallerAxisOfY)
        /\ self.label_x = CallerLabel(CallerAxisOfX)
        /\ self.label_y = CallerLabel(CallerAxisOfY)

\* the data follow the swap (the part of C28 that holds)
DataFollowSwap ==
    Executed("initialize_diagram_labels") =>
        /\ self.min_1 = CallerValues(CallerAxisOfX).min
        /\ self.max_1 = CallerValues(CallerAxisOfX).max
        /\ self.step_1 = CallerValues(CallerAxisOfX).step
        /\ self.dim_1 = CallerUnit(CallerAxisOfX)
        /\ self.min_2 = CallerValues(CallerAxisOfY).min
        /\ self.dim_2 = CallerUnit(CallerAxisOfY)

\* without a swap the labels stay with their data
LabelsFollowDataUnswapped ==
    (Executed("initialize_diagram_labels") /\ ~init_args.swap_axes) =>
        /\ self.label_x = CallerLabel(1)
        /\ self.label_y = CallerLabel(2)

\* C29: the samples of an axis are generated with the count-or-step flag
\* and the logarithmic flag the call gave for that axis, swap or no swap.
C29_FlagsFollowAxis ==
    SamplesGenerated =>
        /\ self.x_np_values = CallerSamples(CallerAxisOfX)
        /\ self.y_np_values = CallerSamples(CallerAxisOfY)

\* without a swap every axis is sampled with its own flags
FlagsFollowAxisUnswapped ==
    (SamplesGenerated /\ ~init_args.swap_axes) =>
        /\ self.x_np_values = CallerSamples(1)
        /\ self.y_np_values = CallerSamples(2)

\* ---------------------------------------------------------------------
\* The two unit tables of map_base_units
\* ---------------------------------------------------------------------

\* C30: every key of unit_mapping_pint_sympy maps to a key of
\* sympy_to_pint_mapping, and that key maps back to the unit started
\* from: the round trip raises no KeyError and does not change the unit,
\* mass included.
C30_TablesAreMutualInverses ==
    rt # NoRt =>
        /\ rt.sympy \in SympyKeys
        /\ rt.back = Ok(<<rt.unit>>)

\* the seven base units other than mass make the round trip
RoundTripExceptMass ==
    (rt # NoRt /\ rt.unit # "gram") =>
        /\ rt.sympy \in SympyKeys
        /\ rt.back = Ok(<<rt.unit>>)

====
